---------------------------- MODULE Spec2Model ----------------------------
(***************************************************************************)
(* A model of scripts/zotero_cli.py: the five commands of the Zotero API   *)
(* client (download, get, search, create, update), the HTTP session with   *)
(* its transport-level retry, the item persister and the payload           *)
(* normalisers.                                                            *)
(*                                                                         *)
(* Encodings.  A Python None in an integer position (max_items, total) is  *)
(* None.  An item key is an integer: NoKey for an absent field, EmptyKey   *)
(* for the empty string, and every integer >= 1 a distinct non-empty key.  *)
(* A string-valued field that is absent holds "None".  The text that       *)
(* json.dump writes for an item is represented by the item itself.         *)
(***************************************************************************)
EXTENDS Integers, Sequences, FiniteSets, TLC

VARIABLES
    args,          \* the parsed command line (argparse.Namespace)
    server,        \* the remote library and how it answers
    pc,            \* position of the command
    start,         \* cmd_download: offset of the next page
    processed,     \* cmd_download: items received so far
    saved,         \* cmd_download: items save_item reported as saved
    total,         \* cmd_download / cmd_search: last parsed Total-Results
    limit,         \* cmd_download: effective limit of the current page
    items,         \* the page last received (library indices)
    cursor,        \* cmd_download: position of `for item in items`
    handed,        \* how often each library item was handed to save_item
    disk,          \* the file system below output_dir
    reqLog,        \* the page requests issued: <<[start, limit], ...>>
    retries,       \* retries consumed by the request in flight
    lastStatus,    \* status of the last HTTP response received
    body,          \* the body given to session.post / session.put
    stdout,        \* what the command printed or wrote as its result
    calls          \* the results of the save_item calls made one by one

vars == <<args, server, pc, start, processed, saved, total, limit, items,
          cursor, handed, disk, reqLog, retries, lastStatus, body, stdout,
          calls>>

---------------------------------------------------------------------------
(* Bounds of the model. *)
MaxLimit == 3
MaxLib == 4
MaxStart == 2
MaxCap == 3
MaxList == 2

(* Program constants. *)
RetryTotal == 10
None == -1
NoKey == -2
EmptyKey == 0

\* Mutant: 404 is on the retry list.
status_forcelist_With404 == {404, 429, 500, 502, 503, 504}

status_forcelist == {429, 500, 502, 503, 504}

(* The statuses the modelled server answers with: success, a              *)
(* non-transient client error, and a status of the retry list.            *)
StatusCodes == {200, 404, 429}

Min(a, b) == IF a <= b THEN a ELSE b

CeilDiv(m, n) == (m + n - 1) \div n

---------------------------------------------------------------------------
(* Items and the persister. *)

ItemTypes == {"attachment", "journalArticle"}

\* An item as the listing endpoint returns it: a key and a data object
\* that repeats the key and carries the itemType.
LibraryItem(i, type) ==
    [key |-> i, itemType |-> "None", hasData |-> TRUE,
     dataKey |-> i, dataItemType |-> type]

\* Python truthiness of a key: None and "" are falsy.
TruthyKey(k) == k /= NoKey /\ k /= EmptyKey

\* Python truthiness of the snapshot suffix: None and "" are falsy.
TruthySuffix(s) == s /= "None" /\ s /= ""

\* data = item.get("data", item)
DataItemType(item) == IF item.hasData THEN item.dataItemType ELSE item.itemType

DataKey(item) == IF item.hasData THEN item.dataKey ELSE item.key

\* key = item.get("key") or data.get("key")
ItemKey(item) == IF TruthyKey(item.key) THEN item.key ELSE DataKey(item)

CanonicalFile == <<"original", ".json">>

SnapshotFile(suffix) == <<"original-", suffix, ".json">>

EmptyDisk == [dirs |-> {}, files |-> <<>>]

\* Mutant: a file that exists is left as it is (mode "x" for "w").
WriteFile_KeepExisting(d, path, item) ==
    [d EXCEPT !.files = d.files @@ (path :> item)]

\* open(path, "w") followed by json.dump(item, f, indent=2): the file at
\* path holds the item, whatever it held before; other files are kept.
WriteFile(d, path, item) ==
    [d EXCEPT !.files = (path :> item) @@ d.files]

\* item_dir.mkdir(parents=True, exist_ok=True)
MkDir(d, key) == [d EXCEPT !.dirs = d.dirs \cup {key}]

\* Mutant: the attachment filter is missing.
save_item_NoFilter(item, d, snapshot_suffix, include_attachments) ==
    IF ~TruthyKey(ItemKey(item))
    THEN [disk |-> d, ret |-> FALSE]
    ELSE LET key == ItemKey(item)
             d1 == MkDir(d, key)
             d2 == WriteFile(d1, <<key, CanonicalFile>>, item)
             d3 == IF TruthySuffix(snapshot_suffix)
                   THEN WriteFile(d2, <<key, SnapshotFile(snapshot_suffix)>>, item)
                   ELSE d2
         IN [disk |-> d3, ret |-> TRUE]

\* save_item: the disk afterwards and the value returned.
save_item(item, d, snapshot_suffix, include_attachments) ==
    IF DataItemType(item) = "attachment" /\ ~include_attachments
    THEN [disk |-> d, ret |-> FALSE]
    ELSE IF ~TruthyKey(ItemKey(item))
    THEN [disk |-> d, ret |-> FALSE]
    ELSE LET key == ItemKey(item)
             d1 == MkDir(d, key)
             d2 == WriteFile(d1, <<key, CanonicalFile>>, item)
             d3 == IF TruthySuffix(snapshot_suffix)
                   THEN WriteFile(d2, <<key, SnapshotFile(snapshot_suffix)>>, item)
                   ELSE d2
         IN [disk |-> d3, ret |-> TRUE]

---------------------------------------------------------------------------
(* The remote API. *)

\* The Total-Results header of a listing response.
TotalResultsHeader ==
    CASE server.header = "absent" ->
            [present |-> FALSE, isdigit |-> FALSE, value |-> 0]
      [] server.header = "nonnumeric" ->
            [present |-> TRUE, isdigit |-> FALSE, value |-> 0]
      [] server.header = "numeric" ->
            [present |-> TRUE, isdigit |-> TRUE, value |-> Len(server.lib)]

\* Mutant: the header is never read as a number.
ParseTotal_Never(h) == None

\* total_int = int(total) if total and total.isdigit() else None
ParseTotal(h) == IF h.present /\ h.isdigit THEN h.value ELSE None

\* The indices s+1 .. s+k of the library.
Window(s, k) == [j \in 1..k |-> s + j]

\* The pages the listing endpoint may answer to (start, limit): nothing
\* past the end of the library, otherwise between one item and the
\* requested limit (the server may cap the page size below the limit).
ServerPages(s, l) ==
    LET avail == Len(server.lib) - s
    IN IF avail <= 0 THEN {<<>>}
       ELSE {Window(s, k) : k \in 1..Min(l, avail)}

ItemAt(i) == LibraryItem(i, server.lib[i])

---------------------------------------------------------------------------
(* The HTTP session (build_session) and the fetchers. *)

\* session.get / post / put: a fresh request, its retry budget untouched
\* (the count is dropped again when the response is handed back).
SendRequest == retries' = 0

\* Retry(total=10, status_forcelist=[...], allowed_methods=None): a
\* response with a listed status is retried while the budget lasts.
HttpRetry ==
    /\ pc = "awaiting"
    /\ \E status \in StatusCodes \cap status_forcelist :
          /\ retries < RetryTotal
          /\ lastStatus' = status
    /\ retries' = retries + 1
    /\ UNCHANGED <<args, server, pc, start, processed, saved, total, limit,
                   items, cursor, handed, disk, reqLog, body, stdout, calls>>

\* The budget is used up: the adapter raises and the command dies.
HttpRetriesExhausted ==
    /\ pc = "awaiting"
    /\ \E status \in StatusCodes \cap status_forcelist :
          /\ retries = RetryTotal
          /\ lastStatus' = status
    /\ pc' = "error"
    /\ UNCHANGED <<args, server, start, processed, saved, total, limit,
                   items, cursor, handed, disk, reqLog, retries, body, stdout,
                   calls>>

\* response.raise_for_status() in fetch_items_page and fetch_item.
RaiseForStatus ==
    /\ pc = "awaiting"
    /\ args.command \in {"download", "get", "search"}
    /\ \E status \in StatusCodes \ status_forcelist :
          /\ status >= 400
          /\ lastStatus' = status
    /\ pc' = "error"
    /\ UNCHANGED <<args, server, start, processed, saved, total, limit,
                   items, cursor, handed, disk, reqLog, retries, body, stdout,
                   calls>>

---------------------------------------------------------------------------
(* cmd_download *)

SnapshotSuffix == IF args.no_snapshot THEN "None" ELSE args.today

\* resolve_auth fails, whatever the command.
MissingCredentials ==
    /\ pc = "start"
    /\ ~args.credentials
    /\ pc' = "error"
    /\ UNCHANGED <<args, server, start, processed, saved, total, limit,
                   items, cursor, handed, disk, reqLog, retries, lastStatus,
                   body, stdout, calls>>

\* Lines 140-150: credentials, session, output directory, the counters.
DownloadStart ==
    /\ pc = "start"
    /\ args.command = "download"
    /\ args.credentials
    /\ start' = args.start
    /\ processed' = 0
    /\ saved' = 0
    /\ total' = None
    /\ pc' = "fetching-page"
    /\ UNCHANGED <<args, server, limit, items, cursor, handed, disk, reqLog,
                   retries, lastStatus, body, stdout, calls>>

\* Mutant: the remaining budget is tested but not applied to the limit.
NextLimit_Uncapped ==
    IF args.max_items /= None
    THEN LET remaining == args.max_items - processed
         IN IF remaining <= 0 THEN None ELSE args.limit
    ELSE args.limit

\* The limit lines 153-159 compute; None when the budget is used up.
NextLimit ==
    IF args.max_items /= None
    THEN LET remaining == args.max_items - processed
         IN IF remaining <= 0 THEN None ELSE Min(args.limit, remaining)
    ELSE args.limit

\* Lines 152-161: the head of the loop up to the request going out.
DownloadLoopHead ==
    /\ pc = "fetching-page"
    /\ IF NextLimit = None
       THEN /\ pc' = "done"
            /\ UNCHANGED <<limit, reqLog, retries>>
       ELSE /\ limit' = NextLimit
            /\ reqLog' = Append(reqLog, [start |-> start, limit |-> NextLimit])
            /\ SendRequest
            /\ pc' = "awaiting"
    /\ UNCHANGED <<args, server, start, processed, saved, total, items, cursor,
                   handed, disk, lastStatus, body, stdout, calls>>

\* Lines 79-82 and 161-164: the page arrives; an empty page ends the loop,
\* any other is counted and goes to the persister.
DownloadPage ==
    /\ pc = "awaiting"
    /\ args.command = "download"
    /\ lastStatus' = 200
    /\ \E page \in ServerPages(start, limit) :
          /\ items' = page
          /\ pc' = IF page = <<>> THEN "done" ELSE "saving-page"
          /\ processed' = processed + Len(page)
    /\ cursor' = 1
    /\ total' = ParseTotal(TotalResultsHeader)
    /\ retries' = 0
    /\ UNCHANGED <<args, server, start, saved, limit, handed, disk, reqLog,
                   body, stdout, calls>>

\* Lines 165-167: one turn of `for item in items`.
SaveItem ==
    /\ pc = "saving-page"
    /\ cursor <= Len(items)
    /\ LET r == save_item(ItemAt(items[cursor]), disk, SnapshotSuffix,
                          args.include_attachments)
       IN /\ disk' = r.disk
          /\ saved' = IF r.ret THEN saved + 1 ELSE saved
    /\ handed' = [handed EXCEPT ![items[cursor]] = @ + 1]
    /\ cursor' = cursor + 1
    /\ UNCHANGED <<args, server, pc, start, processed, total, limit, items,
                   reqLog, retries, lastStatus, body, stdout, calls>>

\* Mutant: the offset advances by one item short of the limit.
AdvanceOffset_Short == start + limit - 1

\* Mutant: the offset is not advanced.
AdvanceOffset_Stuck == start

\* start += limit
AdvanceOffset == start + limit

\* Mutant: the total test made strict.
TotalReached_Strict(newStart) == total /= None /\ newStart > total

\* total is not None and start >= total, on the advanced offset
TotalReached(newStart) == total /= None /\ newStart >= total

\* Lines 169-174: the page is saved; report, advance, test the total.
FinishPage ==
    /\ pc = "saving-page"
    /\ cursor > Len(items)
    /\ stdout' = Append(stdout, [what |-> "progress",
                                 processed |-> processed,
                                 total |-> total,
                                 saved |-> saved])
    /\ start' = AdvanceOffset
    /\ pc' = IF TotalReached(AdvanceOffset) THEN "done" ELSE "fetching-page"
    /\ UNCHANGED <<args, server, processed, saved, total, limit, items,
                   cursor, handed, disk, reqLog, retries, lastStatus, body,
                   calls>>

---------------------------------------------------------------------------
(* cmd_get and cmd_search *)

\* Lines 177-181: the single request of cmd_get.
GetStart ==
    /\ pc = "start"
    /\ args.command = "get"
    /\ args.credentials
    /\ SendRequest
    /\ pc' = "awaiting"
    /\ UNCHANGED <<args, server, start, processed, saved, total, limit,
                   items, cursor, handed, disk, reqLog, lastStatus, body, stdout,
                   calls>>

\* Lines 97-98 and 182-188: the item is written to --output or printed.
GetResponse ==
    /\ pc = "awaiting"
    /\ args.command = "get"
    /\ lastStatus' = 200
    /\ stdout' = Append(stdout, [what |-> "item",
                                 to |-> IF args.output THEN "file" ELSE "stdout"])
    /\ pc' = "done"
    /\ retries' = 0
    /\ UNCHANGED <<args, server, start, processed, saved, total, limit,
                   items, cursor, handed, disk, reqLog, body, calls>>

\* Lines 191-205: the single page request of cmd_search.
SearchStart ==
    /\ pc = "start"
    /\ args.command = "search"
    /\ args.credentials
    /\ reqLog' = Append(reqLog, [start |-> args.start, limit |-> args.limit])
    /\ SendRequest
    /\ pc' = "awaiting"
    /\ UNCHANGED <<args, server, start, processed, saved, total, limit,
                   items, cursor, handed, disk, lastStatus, body, stdout, calls>>

\* Lines 79-82 and 207-216: the page is written or printed, then the total.
SearchResponse ==
    /\ pc = "awaiting"
    /\ args.command = "search"
    /\ lastStatus' = 200
    /\ \E page \in ServerPages(args.start, args.limit) :
          LET t == ParseTotal(TotalResultsHeader)
              shown == [what |-> "items", n |-> Len(page),
                        to |-> IF args.output THEN "file" ELSE "stdout"]
          IN /\ items' = page
             /\ total' = t
             /\ stdout' = IF t /= None
                          THEN <<shown, [what |-> "Total-Results", n |-> t,
                                         to |-> "stdout"]>>
                          ELSE <<shown>>
    /\ pc' = "done"
    /\ retries' = 0
    /\ UNCHANGED <<args, server, start, processed, saved, limit, cursor,
                   handed, disk, reqLog, body, calls>>

---------------------------------------------------------------------------
(* JSON payloads of create and update.  A JSON value is an object, with a  *)
(* tag standing for its other fields and an optional "data" field, or a    *)
(* scalar.  What json.load returns is a single value or a list of values:  *)
(* [isList, elems], a single value being held as elems[1].                 *)

NoData == [present |-> FALSE, t |-> "None", tag |-> "None"]

DataValues == {NoData} \cup {[present |-> TRUE, t |-> k, tag |-> "D"] :
                                k \in {"object", "scalar"}}

JsonObjects == {[t |-> "object", tag |-> g, data |-> d] :
                   g \in {"X", "Y"}, d \in DataValues}

JsonScalars == {[t |-> "scalar", tag |-> "7", data |-> NoData]}

JsonValues == JsonObjects \cup JsonScalars

\* isinstance(v, dict)
IsDict(v) == v.t = "object"

\* "data" in v
HasData(v) == v.data.present

\* v["data"]
GetData(v) == [t |-> v.data.t, tag |-> v.data.tag, data |-> NoData]

Single(v) == [isList |-> FALSE, elems |-> <<v>>]

List(vs) == [isList |-> TRUE, elems |-> vs]

NoBody == [isList |-> FALSE, elems |-> <<>>]

\* normalize_payload: what cmd_update sends.
normalize_payload(payload, data_only) ==
    IF data_only THEN payload
    ELSE IF ~payload.isList /\ IsDict(payload.elems[1]) /\ HasData(payload.elems[1])
    THEN Single(GetData(payload.elems[1]))
    ELSE payload

\* Mutant: --data-only is ignored.
NormalizeElement_Unwrap(item, data_only) ==
    IF HasData(item) THEN GetData(item) ELSE item

\* One element of the create payload, lines 229-234.
NormalizeElement(item, data_only) ==
    IF data_only THEN item
    ELSE IF HasData(item) THEN GetData(item)
    ELSE item

\* normalize_create_payload: the list cmd_create sends, or SystemExit.
normalize_create_payload(payload, data_only) ==
    LET its == payload.elems
    IN IF \E i \in DOMAIN its : ~IsDict(its[i])
       THEN [exit |-> TRUE, value |-> NoBody]
       ELSE [exit |-> FALSE,
             value |-> List([i \in DOMAIN its |->
                                NormalizeElement(its[i], data_only)])]

---------------------------------------------------------------------------
(* cmd_create and cmd_update *)

\* Lines 238-251: normalise, then POST the list.
CreateStart ==
    /\ pc = "start"
    /\ args.command = "create"
    /\ args.credentials
    /\ LET r == normalize_create_payload(args.payload, args.data_only)
       IN IF r.exit
          THEN /\ pc' = "error"
               /\ UNCHANGED <<body, retries>>
          ELSE /\ body' = r.value
               /\ SendRequest
               /\ pc' = "awaiting"
    /\ UNCHANGED <<args, server, start, processed, saved, total, limit,
                   items, cursor, handed, disk, reqLog, lastStatus, stdout, calls>>

\* Lines 256-269: normalise, then PUT.
UpdateStart ==
    /\ pc = "start"
    /\ args.command = "update"
    /\ args.credentials
    /\ body' = normalize_payload(args.payload, args.data_only)
    /\ SendRequest
    /\ pc' = "awaiting"
    /\ UNCHANGED <<args, server, start, processed, saved, total, limit,
                   items, cursor, handed, disk, reqLog, lastStatus, stdout, calls>>

\* Lines 252-253 and 270-271: whatever status comes back is printed.
WriteResponse ==
    /\ pc = "awaiting"
    /\ args.command \in {"create", "update"}
    /\ \E status \in StatusCodes \ status_forcelist :
          /\ lastStatus' = status
          /\ stdout' = Append(stdout, [what |-> "Status", n |-> status,
                                       to |-> "stdout"])
    /\ pc' = "done"
    /\ retries' = 0
    /\ UNCHANGED <<args, server, start, processed, saved, total, limit,
                   items, cursor, handed, disk, reqLog, body, calls>>

---------------------------------------------------------------------------
(* The command lines and servers the model runs. *)

RECURSIVE SeqsUpTo(_, _)
SeqsUpTo(S, n) ==
    IF n = 0 THEN {<<>>}
    ELSE LET shorter == SeqsUpTo(S, n - 1)
         IN shorter \cup {Append(s, x) : s \in {t \in shorter : Len(t) = n - 1},
                                         x \in S}

Commands == {"download", "get", "search", "create", "update"}

HeaderModes == {"absent", "nonnumeric", "numeric"}

Today == "11-05"

\* argparse's defaults, scaled: every field of the Namespace.
DefaultArgs(command) ==
    [command |-> command, credentials |-> TRUE, limit |-> MaxLimit,
     max_items |-> None, start |-> 0, include_attachments |-> FALSE,
     no_snapshot |-> FALSE, today |-> Today, output |-> FALSE,
     data_only |-> FALSE, payload |-> NoBody]

DownloadArgs ==
    {[DefaultArgs("download") EXCEPT
         !.credentials = c, !.limit = l, !.max_items = m, !.start = s,
         !.include_attachments = a, !.no_snapshot = n] :
        c \in BOOLEAN, l \in 1..MaxLimit, m \in {None} \cup 0..MaxCap,
        s \in 0..MaxStart, a \in BOOLEAN, n \in BOOLEAN}

GetArgs ==
    {[DefaultArgs("get") EXCEPT !.credentials = c, !.output = o] :
        c \in BOOLEAN, o \in BOOLEAN}

SearchArgs ==
    {[DefaultArgs("search") EXCEPT
         !.credentials = c, !.limit = l, !.start = s, !.output = o] :
        c \in BOOLEAN, l \in 1..MaxLimit, s \in 0..MaxStart, o \in BOOLEAN}

Payloads ==
    {Single(v) : v \in JsonValues}
       \cup {List(vs) : vs \in SeqsUpTo(JsonValues, MaxList)}

WriteArgs ==
    {[DefaultArgs(cmd) EXCEPT
         !.credentials = c, !.data_only = d, !.payload = p] :
        cmd \in {"create", "update"}, c \in BOOLEAN, d \in BOOLEAN,
        p \in Payloads}

Libraries == SeqsUpTo(ItemTypes, MaxLib)

Servers == {[lib |-> l, header |-> h] : l \in Libraries, h \in HeaderModes}

\* A library of n items in which every third item is an attachment.
PatternLibrary(n) ==
    [i \in 1..n |-> IF i % 3 = 0 THEN "attachment" ELSE "journalArticle"]

\* --max-items 5 --limit 10, over libraries of up to seven items.
CapScenarioArgs ==
    {[DefaultArgs("download") EXCEPT
         !.limit = 10, !.max_items = 5, !.start = s,
         !.include_attachments = a] :
        s \in 0..1, a \in BOOLEAN}

CapScenarioServers ==
    {[lib |-> PatternLibrary(n), header |-> h] :
        n \in 0..7, h \in HeaderModes}

\* --limit 20 from offset 0 over a library of 37 items.
TotalScenarioArgs ==
    {[DefaultArgs("download") EXCEPT !.limit = 20, !.include_attachments = a] :
        a \in BOOLEAN}

TotalScenarioServers ==
    {[lib |-> PatternLibrary(37), header |-> h] : h \in HeaderModes}

InitRun ==
    /\ pc = "start"
    /\ start = 0
    /\ processed = 0
    /\ saved = 0
    /\ total = None
    /\ limit = 0
    /\ items = <<>>
    /\ cursor = 1
    /\ handed = [i \in 1..Len(server.lib) |-> 0]
    /\ reqLog = <<>>
    /\ retries = 0
    /\ lastStatus = 0
    /\ body = NoBody
    /\ stdout = <<>>
    /\ calls = <<>>

InitDownload ==
    /\ \/ /\ args \in DownloadArgs
          /\ server \in Servers
       \/ /\ args \in CapScenarioArgs
          /\ server \in CapScenarioServers
       \/ /\ args \in TotalScenarioArgs
          /\ server \in TotalScenarioServers
    /\ disk = EmptyDisk
    /\ InitRun

Init ==
    \/ InitDownload
    \/ /\ args \in GetArgs \cup WriteArgs
       /\ server = [lib |-> <<>>, header |-> "absent"]
       /\ disk = EmptyDisk
       /\ InitRun
    \/ /\ args \in SearchArgs
       /\ server \in Servers
       /\ disk = EmptyDisk
       /\ InitRun

Next ==
    \/ MissingCredentials
    \/ DownloadStart
    \/ DownloadLoopHead
    \/ DownloadPage
    \/ SaveItem
    \/ FinishPage
    \/ HttpRetry
    \/ HttpRetriesExhausted
    \/ RaiseForStatus
    \/ GetStart
    \/ GetResponse
    \/ SearchStart
    \/ SearchResponse
    \/ CreateStart
    \/ UpdateStart
    \/ WriteResponse

Spec == Init /\ [][Next]_vars

---------------------------------------------------------------------------
(* save_item on its own: one item persisted up to MaxCalls times into a    *)
(* directory that is empty or already holds files of an earlier run.       *)

MaxCalls == 2

ItemFieldTypes == {"None"} \cup ItemTypes

\* Items as json.load may yield them: with or without a top-level key and
\* itemType, with or without a data object.
Items ==
    {[key |-> k, itemType |-> t, hasData |-> FALSE,
      dataKey |-> NoKey, dataItemType |-> "None"] :
        k \in {NoKey, EmptyKey, 1, 2}, t \in ItemFieldTypes}
    \cup
    {[key |-> k, itemType |-> t, hasData |-> TRUE,
      dataKey |-> dk, dataItemType |-> dt] :
        k \in {NoKey, EmptyKey, 1, 2}, t \in ItemFieldTypes,
        dk \in {NoKey, 1, 2}, dt \in ItemFieldTypes}

Suffixes == {"None", "", "11-05", "11-06"}

\* What an earlier run left for key 1: another version of the item, and
\* its snapshot of the day before.
StaleDisk ==
    LET old == LibraryItem(1, "note")
    IN WriteFile(WriteFile(MkDir(EmptyDisk, 1), <<1, CanonicalFile>>, old),
                 <<1, SnapshotFile("11-04")>>, old)

InitPersist ==
    /\ args \in {[command |-> "save_item", item |-> it] : it \in Items}
    /\ server = [lib |-> <<>>, header |-> "absent"]
    /\ disk \in {EmptyDisk, StaleDisk}
    /\ InitRun

\* One call of save_item(item, output_dir, snapshot_suffix, include_attachments).
PersistCall ==
    /\ args.command = "save_item"
    /\ Len(calls) < MaxCalls
    /\ \E suffix \in Suffixes, include \in BOOLEAN :
          LET r == save_item(args.item, disk, suffix, include)
          IN /\ disk' = r.disk
             /\ calls' = Append(calls, [suffix |-> suffix, include |-> include,
                                        ret |-> r.ret, before |-> disk,
                                        after |-> r.disk])
    /\ UNCHANGED <<args, server, pc, start, processed, saved, total, limit,
                   items, cursor, handed, reqLog, retries, lastStatus, body, stdout>>

SpecPersist == InitPersist /\ [][PersistCall]_vars

NextDownload ==
    \/ MissingCredentials
    \/ DownloadStart
    \/ DownloadLoopHead
    \/ DownloadPage
    \/ SaveItem
    \/ FinishPage
    \/ HttpRetry
    \/ HttpRetriesExhausted
    \/ RaiseForStatus

\* The runs whose termination is checked: every page size, start offset
\* and cap of the model over libraries of every size, with and without a
\* total count.  What is saved plays no part in the loop's control.
InitLive ==
    /\ args \in {a \in DownloadArgs :
                    a.include_attachments /\ a.no_snapshot}
    /\ server \in {[lib |-> PatternLibrary(n), header |-> h] :
                      n \in 0..MaxLib, h \in HeaderModes}
    /\ disk = EmptyDisk
    /\ InitRun

\* The download command alone.  Every step of the program is taken once it
\* is possible: the program is sequential and each request ends, by a
\* response or by the 20 second timeout.
SpecLive == InitLive /\ [][NextDownload]_vars /\ WF_vars(NextDownload)

---------------------------------------------------------------------------
(* Properties of the download loop. *)

IsDownload == args.command = "download"

LibSize == Len(server.lib)

ReportsTotal == server.header = "numeric"

\* A complete run: from offset 0, without --max-items.
FullRun == IsDownload /\ args.start = 0 /\ args.max_items = None

\* C1, as amended: a download from offset 0 without a max-items cap over a
\* library of M items with page size N has issued, when it reaches done,
\* exactly ceil(M/N) page requests if the server reports the total count
\* and M > 0, and exactly ceil(M/N) + 1 otherwise (the last one answered
\* by an empty page).
C1_PageRequests ==
    (FullRun /\ pc = "done") =>
        Len(reqLog) = IF ReportsTotal /\ LibSize > 0
                      THEN CeilDiv(LibSize, args.limit)
                      ELSE CeilDiv(LibSize, args.limit) + 1

\* C1 as stated: ceil(M/N) page requests whether or not the server reports
\* a total count.
C1_Original ==
    (FullRun /\ pc = "done") => Len(reqLog) = CeilDiv(LibSize, args.limit)

C1_Witness ==
    /\ FullRun /\ pc = "done"
    /\ LibSize = 4 /\ args.limit = 3
    /\ ReportsTotal
    /\ Len(reqLog) = 2

\* C2 as stated: at every step saved <= processed, and a complete run that
\* reaches done has saved every item (attachments included) or every item
\* that is not an attachment (attachments excluded).
C2_SavedCount ==
    IsDownload =>
        /\ saved <= processed
        /\ (FullRun /\ pc = "done") =>
              saved = IF args.include_attachments
                      THEN LibSize
                      ELSE Cardinality({i \in 1..LibSize :
                                           server.lib[i] /= "attachment"})

CapScenario == IsDownload /\ args.max_items = 5 /\ args.limit = 10

\* The number of items the first page brought (0 for an empty page).
FirstPageCount == IF stdout = <<>> THEN 0 ELSE stdout[1].processed

\* C3, as amended: with a max-items cap of 5 and a page size of 10 the
\* first page request carries an effective limit of 5.  It is the only
\* request when that page comes back empty or with 5 items, or when the
\* server reports a total count that the advanced offset (start + 5) has
\* reached; otherwise a second request follows, its limit the budget left.
C3_CapLimit ==
    CapScenario =>
        /\ reqLog /= <<>> =>
              reqLog[1] = [start |-> args.start, limit |-> 5]
        /\ pc = "done" =>
              IF \/ FirstPageCount = 0
                 \/ FirstPageCount = 5
                 \/ (total /= None /\ args.start + 5 >= total)
              THEN Len(reqLog) = 1
              ELSE /\ Len(reqLog) >= 2
                   /\ reqLog[2] = [start |-> args.start + 5,
                                   limit |-> 5 - FirstPageCount]

\* The first page held all the server had to give within the limit of 5.
FirstPageFull ==
    LET avail == LibSize - args.start
    IN FirstPageCount = IF avail <= 0 THEN 0 ELSE Min(5, avail)

\* C3 as stated, for a server that fills its pages: exactly one page
\* request, with limit 5, for every library size and whether or not the
\* server reports a total count.
C3_Original ==
    (CapScenario /\ pc = "done" /\ FirstPageFull) =>
        /\ Len(reqLog) = 1
        /\ reqLog[1].limit = 5

C3_Witness ==
    /\ CapScenario /\ pc = "done"
    /\ LibSize = 7 /\ args.start = 0
    /\ processed = 5
    /\ reqLog = <<[start |-> 0, limit |-> 5]>>

TotalScenario ==
    /\ IsDownload /\ args.limit = 20 /\ args.start = 0
    /\ args.max_items = None
    /\ LibSize = 37 /\ ReportsTotal

C9_EveryItemOnce ==
    IsDownload =>
        /\ \A j \in DOMAIN reqLog :
              reqLog[j].start = IF j = 1 THEN args.start
                                ELSE reqLog[j-1].start + reqLog[j-1].limit
        /\ pc = "done" =>
              \A i \in 1..LibSize :
                 handed[i] = IF /\ i > args.start
                                /\ \/ args.max_items = None
                                   \/ i <= args.start + args.max_items
                             THEN 1 ELSE 0

---------------------------------------------------------------------------
(* Properties of the persister. *)

\* The files one save_item call writes for the item.
FilesWritten(call) ==
    LET key == ItemKey(args.item)
    IN {<<key, CanonicalFile>>}
          \cup IF TruthySuffix(call.suffix)
               THEN {<<key, SnapshotFile(call.suffix)>>}
               ELSE {}

\* The call left exactly the canonical file and, with a suffix, the one
\* suffixed copy, each holding the item, and nothing else changed.
WroteItem(call) ==
    /\ ItemKey(args.item) \in call.after.dirs
    /\ DOMAIN call.after.files = DOMAIN call.before.files \cup FilesWritten(call)
    /\ \A p \in FilesWritten(call) : call.after.files[p] = args.item
    /\ \A p \in DOMAIN call.before.files \ FilesWritten(call) :
          call.after.files[p] = call.before.files[p]

\* C5: persisting the same item again into the same directory with the
\* same snapshot suffix leaves the directory as the first persist left it,
\* and a persist that saves leaves the canonical file plus, when a suffix
\* is given, the one suffixed copy, each with the item as its content.
C5_Idempotent ==
    /\ \A i \in DOMAIN calls : calls[i].ret => WroteItem(calls[i])
    /\ \A i \in DOMAIN calls :
          (/\ i > 1
           /\ calls[i].suffix = calls[i-1].suffix
           /\ calls[i].include = calls[i-1].include) =>
              /\ calls[i].after = calls[i-1].after
              /\ calls[i].ret = calls[i-1].ret

C5_Witness ==
    /\ Len(calls) = 2
    /\ calls[1].suffix = "11-05" /\ calls[2].suffix = "11-05"
    /\ calls[1].ret /\ calls[2].ret
    /\ calls[1].before = StaleDisk
    /\ ItemKey(args.item) = 1
    /\ calls[1].after /= StaleDisk
    /\ disk = calls[1].after

\* C6: for an item whose effective type is "attachment", a persist with
\* attachments excluded leaves the disk unchanged and returns not-saved;
\* a persist of the same (keyed) item with attachments included writes
\* its files and returns saved.
C6_AttachmentFilter ==
    \A i \in DOMAIN calls :
        DataItemType(args.item) = "attachment" =>
            /\ ~calls[i].include =>
                  /\ calls[i].after = calls[i].before
                  /\ ~calls[i].ret
            /\ (calls[i].include /\ TruthyKey(ItemKey(args.item))) =>
                  /\ calls[i].ret
                  /\ WroteItem(calls[i])

C6_Witness ==
    /\ Len(calls) = 2
    /\ DataItemType(args.item) = "attachment"
    /\ ~calls[1].include /\ calls[1].before = EmptyDisk
    /\ calls[1].after = EmptyDisk /\ ~calls[1].ret
    /\ calls[2].include /\ calls[2].ret
    /\ calls[2].after /= EmptyDisk

---------------------------------------------------------------------------
(* Properties of create and update. *)

\* What is sent for one payload value: its "data" object when it is an
\* object with that field and --data-only is absent, else the value itself.
Transmitted(v) ==
    IF ~args.data_only /\ IsDict(v) /\ HasData(v) THEN GetData(v) ELSE v

\* C7, as amended: update transmits, for a payload object with a "data"
\* field, only that nested object when --data-only is absent and the
\* object unchanged when it is given, and an object without "data"
\* unchanged in both modes.  Create always transmits a JSON array: its
\* elements are the payload's elements, each transmitted by that rule, and
\* a single object is sent as the one element of such an array.
C7_Normalized ==
    pc = "awaiting" =>
        /\ (args.command = "update" /\ ~args.payload.isList) =>
              body = Single(Transmitted(args.payload.elems[1]))
        /\ args.command = "create" =>
              /\ body.isList
              /\ Len(body.elems) = Len(args.payload.elems)
              /\ \A i \in DOMAIN body.elems :
                    body.elems[i] = Transmitted(args.payload.elems[i])

\* C7 as stated: for create as for update the body of a single payload
\* object is that object or its "data" object; for create's list form the
\* rule holds for each element.
C7_Original ==
    (pc = "awaiting" /\ args.command \in {"create", "update"}) =>
        IF args.payload.isList
        THEN args.command = "create" =>
                body = List([i \in DOMAIN args.payload.elems |->
                                Transmitted(args.payload.elems[i])])
        ELSE body = Single(Transmitted(args.payload.elems[1]))

C7_Witness ==
    /\ args.command = "create" /\ pc = "awaiting"
    /\ ~args.data_only
    /\ ~args.payload.isList
    /\ HasData(args.payload.elems[1])
    /\ body = List(<<GetData(args.payload.elems[1])>>)

---------------------------------------------------------------------------
(* Properties of the error handling. *)

\* C8, as amended: a 404 response is never retried and no request follows
\* it.  In download, get and search it is raised and the command ends in
\* error; in create and update it is not raised: its status is printed and
\* the command ends normally.
C8_NonTransient ==
    /\ [][(pc = "awaiting" /\ lastStatus' = 404) =>
             /\ reqLog' = reqLog
             /\ IF args.command \in {"download", "get", "search"}
                THEN /\ pc' = "error"
                     /\ stdout' = stdout
                ELSE /\ pc' = "done"
                     /\ stdout' = Append(stdout, [what |-> "Status",
                                                  n |-> 404,
                                                  to |-> "stdout"])]_vars
    /\ [][pc \notin {"done", "error"}]_vars

\* C8 as stated: in every command a 404 response is raised without a retry
\* and the command ends in error.
C8_Original ==
    [][(pc = "awaiting" /\ lastStatus' = 404) => pc' = "error"]_vars

C8_Witness ==
    /\ IsDownload /\ pc = "error"
    /\ lastStatus = 404
    /\ Len(reqLog) = 2
    /\ retries = 0

---------------------------------------------------------------------------
(* Termination of the download loop. *)

\* A bound on the steps the command may still take: the pages that may
\* still come (one per item left, and the empty one), each worth the steps
\* of one iteration with all its retries and all its items.
Variant ==
    LET perPage == RetryTotal + args.limit + 5
        pagesFrom(s) == IF s < LibSize THEN LibSize - s + 1 ELSE 1
    IN CASE pc = "start" -> perPage * pagesFrom(args.start) + perPage
         [] pc = "fetching-page" -> perPage * pagesFrom(start) + perPage - 1
         [] pc = "awaiting" -> perPage * pagesFrom(start) + perPage - 2 - retries
         [] pc = "saving-page" ->
               perPage * pagesFrom(start) + Len(items) - cursor + 2
         [] OTHER -> 0

\* C10: a download run over a finite library ends.  Every step lowers a
\* bound on the steps left, so only finitely many page requests are
\* issued; the run ends in done unless a request failed (or the
\* credentials are missing), and then in error.
C10_Terminates ==
    /\ [][Variant' < Variant]_vars
    /\ [](Variant >= 0)
    /\ [](pc = "error" => (~args.credentials \/ lastStatus \in {404, 429}))
    /\ <>(pc = "done" \/ pc = "error")

C10_Witness ==
    /\ IsDownload /\ pc = "done"
    /\ ~ReportsTotal
    /\ args.max_items = 3 /\ args.start = 1 /\ args.limit = 2
    /\ LibSize = 4
    /\ Len(reqLog) = 2

=============================================================================
